---- MODULE Spec2Model ----
(***************************************************************************)
(* Model of common/error_matcher.go: the ignore-rule matcher of the RPC    *)
(* proxy (ErrorMatcher, its pattern matching and the three-tier merge).    *)
(*                                                                         *)
(* Strings are sequences of one-character strings over Alphabet.  A Go     *)
(* pointer or slice that may be nil is a record with an isNil flag.  The   *)
(* outcome of a call is "true", "false" or "panic" (a nil dereference).    *)
(***************************************************************************)
EXTENDS Naturals, Sequences, FiniteSets

VARIABLES
    projectPatterns,   \* project-tier rule slice handed to MergePatterns
    networkPatterns,   \* network-tier rule slice
    upstreamPatterns,  \* upstream-tier rule slice
    matcher,           \* *ErrorMatcher held by the scope (may be a nil pointer)
    err,               \* argument of the last ShouldIgnoreError call
    result,            \* its outcome; "none" before the first call
    errorsTotal,       \* health tracker's ErrorsTotal counter of the upstream/method
    notIgnoredCalls,   \* history: RecordUpstreamFailure calls whose error no rule matched
    failureCalls,      \* history: RecordUpstreamFailure calls made
    callers,           \* SpecConcurrent: each in-flight call's position and locals
    heap,              \* SpecReconf: the backing arrays of the slices
    held               \* SpecReconf: history, the matchers built and what they held

vars == <<projectPatterns, networkPatterns, upstreamPatterns, matcher, err, result,
          errorsTotal, notIgnoredCalls, failureCalls, callers, heap, held>>

(***************************************************************************)
(* Bounds                                                                  *)
(***************************************************************************)
\* longest pattern / error field enumerated by SpecRule
MaxLen == 2
\* most rules over the three tiers together enumerated by Spec and SpecHealth
MaxRules == 3
\* most RecordUpstreamFailure calls in one behaviour of SpecHealth
MaxCalls == 3

\* "a" is an ordinary character; "*" is the wildcard character, the regexp
\* repetition operator, and an ordinary character when it occurs in a target.
Alphabet == {"a", "*"}

RECURSIVE StrsOfLen(_)
StrsOfLen(n) ==
    IF n = 0 THEN {<<>>}
    ELSE {Append(s, c) : s \in StrsOfLen(n - 1), c \in Alphabet}

Strs == UNION {StrsOfLen(n) : n \in 0..MaxLen}

(***************************************************************************)
(* Match types (ErrorMatchType).  "" is the unspecified type, "fuzzy"      *)
(* stands for any value the switch of matchString does not name.           *)
(***************************************************************************)
ErrorMatchTypeExact == "exact"
ErrorMatchTypeSubstring == "substring"
ErrorMatchTypeWildcard == "wildcard"
ErrorMatchTypeRegex == "regex"
MatchTypes == {"", ErrorMatchTypeExact, ErrorMatchTypeSubstring,
               ErrorMatchTypeWildcard, ErrorMatchTypeRegex, "fuzzy"}

(***************************************************************************)
(* strings.Contains                                                        *)
(***************************************************************************)
Contains(s, substr) ==
    \E i \in 1..(Len(s) + 1) :
        /\ i + Len(substr) - 1 <= Len(s)
        /\ \A j \in 1..Len(substr) : s[i + j - 1] = substr[j]

(***************************************************************************)
(* WildcardMatch(pattern, value): "*" matches zero or more characters, the *)
(* whole value must be consumed.  Returns (matched, err).                  *)
(***************************************************************************)
RECURSIVE GlobMatch(_, _)
GlobMatch(pattern, value) ==
    IF pattern = <<>> THEN value = <<>>
    ELSE IF Head(pattern) = "*"
         THEN \/ GlobMatch(Tail(pattern), value)
              \/ (value # <<>> /\ GlobMatch(pattern, Tail(value)))
         ELSE /\ value # <<>>
              /\ Head(value) = Head(pattern)
              /\ GlobMatch(Tail(pattern), Tail(value))

\* No expression over Alphabet is structurally invalid: "*" is the only
\* wildcard character the matcher defines.
WildcardInvalid(pattern) == FALSE

WildcardMatch(pattern, value) ==
    IF WildcardInvalid(pattern)
    THEN [matched |-> FALSE, err |-> TRUE]
    ELSE [matched |-> GlobMatch(pattern, value), err |-> FALSE]

(***************************************************************************)
(* regexp.Compile and Regexp.MatchString, for the expressions Alphabet can *)
(* spell: a literal, or a literal followed by "*".  Compile fails on a     *)
(* repetition operator with no argument ("*", "*a") and on a nested one    *)
(* ("a**").  MatchString is unanchored.                                    *)
(***************************************************************************)
RegexpCompileFails(pattern) ==
    \E i \in 1..Len(pattern) :
        /\ pattern[i] = "*"
        /\ (i = 1 \/ pattern[i - 1] = "*")

\* the compiled program: a sequence of [ch, star]
RECURSIVE RegexpCompile(_)
RegexpCompile(pattern) ==
    IF pattern = <<>> THEN <<>>
    ELSE IF Len(pattern) >= 2 /\ pattern[2] = "*"
         THEN <<[ch |-> pattern[1], star |-> TRUE]>>
                  \o RegexpCompile(SubSeq(pattern, 3, Len(pattern)))
         ELSE <<[ch |-> pattern[1], star |-> FALSE]>>
                  \o RegexpCompile(Tail(pattern))

\* whether prog matches some prefix of s
RECURSIVE RegexpMatchHere(_, _)
RegexpMatchHere(prog, s) ==
    IF prog = <<>> THEN TRUE
    ELSE IF Head(prog).star
         THEN \/ RegexpMatchHere(Tail(prog), s)
              \/ (s # <<>> /\ Head(s) = Head(prog).ch /\ RegexpMatchHere(prog, Tail(s)))
         ELSE /\ s # <<>>
              /\ Head(s) = Head(prog).ch
              /\ RegexpMatchHere(Tail(prog), Tail(s))

RegexpMatchString(prog, s) ==
    \E i \in 1..(Len(s) + 1) : RegexpMatchHere(prog, SubSeq(s, i, Len(s)))

\* matchString with the regex fallback lost: a pattern that does not compile
\* matches nothing
matchString_NoRegexFallback(target, pattern, matchType) ==
    IF target = <<>> \/ pattern = <<>> THEN FALSE
    ELSE CASE matchType = ErrorMatchTypeExact -> target = pattern
           [] matchType = ErrorMatchTypeWildcard -> GlobMatch(pattern, target)
           [] matchType = ErrorMatchTypeRegex ->
                  /\ ~RegexpCompileFails(pattern)
                  /\ RegexpMatchString(RegexpCompile(pattern), target)
           [] OTHER -> Contains(target, pattern)

\* matchString whose default branch compares for equality
matchString_DefaultExact(target, pattern, matchType) ==
    IF target = <<>> \/ pattern = <<>> THEN FALSE
    ELSE CASE matchType = ErrorMatchTypeSubstring -> Contains(target, pattern)
           [] matchType = ErrorMatchTypeWildcard -> GlobMatch(pattern, target)
           [] matchType = ErrorMatchTypeRegex ->
                  IF RegexpCompileFails(pattern)
                  THEN Contains(target, pattern)
                  ELSE RegexpMatchString(RegexpCompile(pattern), target)
           [] OTHER -> target = pattern

\* matchString without the test for an empty target or pattern
matchString_NoEmptyCheck(target, pattern, matchType) ==
    CASE matchType = ErrorMatchTypeExact -> target = pattern
      [] matchType = ErrorMatchTypeWildcard -> GlobMatch(pattern, target)
      [] matchType = ErrorMatchTypeRegex ->
             IF RegexpCompileFails(pattern)
             THEN Contains(target, pattern)
             ELSE RegexpMatchString(RegexpCompile(pattern), target)
      [] OTHER -> Contains(target, pattern)

(***************************************************************************)
(* ErrorMatcher.matchString                                                *)
(***************************************************************************)
matchString(target, pattern, matchType) ==
    IF target = <<>> \/ pattern = <<>> THEN FALSE
    ELSE CASE matchType = ErrorMatchTypeExact -> target = pattern
           [] matchType = ErrorMatchTypeSubstring -> Contains(target, pattern)
           [] matchType = ErrorMatchTypeWildcard ->
                  LET r == WildcardMatch(pattern, target)
                  IN  IF r.err THEN Contains(target, pattern) ELSE r.matched
           [] matchType = ErrorMatchTypeRegex ->
                  IF RegexpCompileFails(pattern)
                  THEN Contains(target, pattern)
                  ELSE RegexpMatchString(RegexpCompile(pattern), target)
           [] OTHER -> Contains(target, pattern)

(***************************************************************************)
(* Rules: *IgnoreErrorConfig                                               *)
(***************************************************************************)
Rule(code, message, matchType) ==
    [isNil |-> FALSE, code |-> code, message |-> message, matchType |-> matchType]

NilRule == [isNil |-> TRUE, code |-> <<>>, message |-> <<>>, matchType |-> ""]

AllRules == {Rule(c, m, t) : c \in Strs, m \in Strs, t \in MatchTypes}

EffType(pattern) ==
    IF pattern.matchType = "" THEN ErrorMatchTypeSubstring ELSE pattern.matchType

\* matchesPattern satisfied by either field alone
matchesPattern_EitherField(errMsg, errCode, pattern) ==
    \/ pattern.code # <<>> /\ matchString(errCode, pattern.code, EffType(pattern))
    \/ pattern.message # <<>>
           /\ matchString(errMsg, pattern.message, EffType(pattern))

\* matchesPattern that checks the message even when the rule gives none
matchesPattern_AlwaysCheckMessage(errMsg, errCode, pattern) ==
    /\ pattern.code = <<>> \/ matchString(errCode, pattern.code, EffType(pattern))
    /\ matchString(errMsg, pattern.message, EffType(pattern))

\* matchesPattern without the final test that the rule constrains a field:
\* a rule with no pattern matches every error
matchesPattern_NoConstraintMatches(errMsg, errCode, pattern) ==
    /\ pattern.code = <<>> \/ matchString(errCode, pattern.code, EffType(pattern))
    /\ pattern.message = <<>>
           \/ matchString(errMsg, pattern.message, EffType(pattern))

(***************************************************************************)
(* ErrorMatcher.matchesPattern; the pattern is not nil                     *)
(***************************************************************************)
matchesPattern(errMsg, errCode, pattern) ==
    LET matchType == IF pattern.matchType = "" THEN ErrorMatchTypeSubstring
                     ELSE pattern.matchType
    IN  IF pattern.code # <<>> /\ ~matchString(errCode, pattern.code, matchType)
        THEN FALSE
        ELSE IF pattern.message # <<>>
                    /\ ~matchString(errMsg, pattern.message, matchType)
             THEN FALSE
             ELSE pattern.code # <<>> \/ pattern.message # <<>>

(***************************************************************************)
(* Errors.  kind "nil" is the nil error; "plain" an error without the      *)
(* StandardError capability; "std" a StandardError, whose Base() is nil    *)
(* when hasBase is FALSE; "wrap" is fmt.Errorf(prefix + "%w", cause) around *)
(* the "std" error the other fields describe.  msg is what Error() renders *)
(* ("std", "plain") or what the cause renders ("wrap").                    *)
(***************************************************************************)
Error(kind, hasBase, code, msg) ==
    [kind |-> kind, hasBase |-> hasBase, code |-> code, msg |-> msg]

NilErr == Error("nil", FALSE, <<>>, <<>>)

Errors ==
    {NilErr}
    \cup {Error("plain", FALSE, <<>>, m) : m \in Strs}
    \cup {Error("std", FALSE, <<>>, m) : m \in Strs}
    \cup {Error(k, TRUE, c, m) : k \in {"std", "wrap"}, c \in Strs, m \in Strs}

WrapPrefix == <<"a">>

\* the wrapper around a "std" error, and the error a wrapper wraps
Wrap(e) == [e EXCEPT !.kind = "wrap"]
Cause(e) == [e EXCEPT !.kind = "std"]

\* err.Error()
ErrorMsg(e) == IF e.kind = "wrap" THEN WrapPrefix \o e.msg ELSE e.msg

\* code extraction that looks through a wrapper (errors.As instead of a
\* type assertion on the outermost error)
ErrorCode_Unwrapped(e) ==
    IF e.kind \in {"std", "wrap"} /\ e.hasBase THEN e.code ELSE <<>>

\* the code ShouldIgnoreError extracts: only a StandardError with a non-nil
\* base and a non-empty code gives one
ErrorCode(e) == IF e.kind = "std" /\ e.hasBase THEN e.code ELSE <<>>

(***************************************************************************)
(* Slices and the matcher                                                  *)
(***************************************************************************)
NilSlice == [isNil |-> TRUE, elems |-> <<>>]
Slice(elems) == [isNil |-> FALSE, elems |-> elems]

NilMatcher == [isNil |-> TRUE, patterns |-> NilSlice]

NewErrorMatcher(patterns) ==
    [isNil |-> FALSE,
     patterns |-> IF patterns.isNil THEN Slice(<<>>) ELSE patterns]

\* MergePatterns read as an override: the most specific non-empty tier wins
MergePatterns_UpstreamOverrides(project, network, upstream) ==
    NewErrorMatcher(Slice(
        IF upstream.elems # <<>> THEN upstream.elems
        ELSE IF network.elems # <<>> THEN network.elems
        ELSE project.elems))

MergePatterns(project, network, upstream) ==
    NewErrorMatcher(Slice(upstream.elems \o network.elems \o project.elems))

\* the loop of ShouldIgnoreError over m.patterns from index i on
RECURSIVE CheckPatterns(_, _, _, _)
CheckPatterns(patterns, i, errMsg, errCode) ==
    IF i > Len(patterns) THEN "false"
    ELSE IF patterns[i].isNil THEN "panic"
    ELSE IF matchesPattern(errMsg, errCode, patterns[i]) THEN "true"
    ELSE CheckPatterns(patterns, i + 1, errMsg, errCode)

\* ShouldIgnoreError without the err == nil test: err.Error() on a nil
\* interface panics
ShouldIgnoreError_NoNilErrCheck(m, e) ==
    IF m.isNil \/ Len(m.patterns.elems) = 0 THEN "false"
    ELSE IF e.kind = "nil" THEN "panic"
    ELSE CheckPatterns(m.patterns.elems, 1, ErrorMsg(e), ErrorCode(e))

\* ShouldIgnoreError whose loop returns the verdict of the first rule
ShouldIgnoreError_FirstRuleOnly(m, e) ==
    IF e.kind = "nil" \/ m.isNil \/ Len(m.patterns.elems) = 0 THEN "false"
    ELSE CheckPatterns(<<m.patterns.elems[1]>>, 1, ErrorMsg(e), ErrorCode(e))

ShouldIgnoreError(m, e) ==
    IF e.kind = "nil" \/ m.isNil \/ Len(m.patterns.elems) = 0 THEN "false"
    ELSE CheckPatterns(m.patterns.elems, 1, ErrorMsg(e), ErrorCode(e))

(***************************************************************************)
(* Actions                                                                 *)
(***************************************************************************)
ShouldIgnoreErrorCall(e) ==
    /\ result # "panic"
    /\ err' = e
    /\ result' = ShouldIgnoreError(matcher, e)
    /\ UNCHANGED <<projectPatterns, networkPatterns, upstreamPatterns, matcher,
                   errorsTotal, notIgnoredCalls, failureCalls, callers, heap, held>>

(***************************************************************************)
(* SpecRule: one matcher built by NewErrorMatcher from a nil, empty or     *)
(* one-entry slice (or no matcher at all), and one ShouldIgnoreError call  *)
(* with any error.                                                         *)
(***************************************************************************)
RuleSlices ==
    {NilSlice, Slice(<<>>)} \cup {Slice(<<r>>) : r \in AllRules \cup {NilRule}}

InitRule ==
    /\ projectPatterns = NilSlice
    /\ networkPatterns = NilSlice
    /\ upstreamPatterns \in RuleSlices
    /\ matcher \in (IF upstreamPatterns.isNil THEN {NilMatcher} ELSE {})
                     \cup {NewErrorMatcher(upstreamPatterns)}
    /\ err = NilErr
    /\ result = "none"
    /\ errorsTotal = 0
    /\ notIgnoredCalls = 0
    /\ failureCalls = 0
    /\ callers = <<>>
    /\ heap = <<>>
    /\ held = <<>>

NextRule == \E e \in Errors : result = "none" /\ ShouldIgnoreErrorCall(e)

SpecRule == InitRule /\ [][NextRule]_vars

(***************************************************************************)
(* Spec: one configuration scope.  The three tiers hold at most MaxRules   *)
(* entries together, drawn from TierRules and the nil pointer; each tier   *)
(* may be a nil or an empty slice.  The scope builds its matcher once,     *)
(* with MergePatterns or with NewErrorMatcher on one tier, and calls       *)
(* ShouldIgnoreError with the errors of TierErrors.                        *)
(***************************************************************************)
\* a rule on the exact message "a", one on messages that contain "*" (match
\* type unspecified), and one on the exact code "a"
TierRules ==
    {Rule(<<>>, <<"a">>, ErrorMatchTypeExact),
     Rule(<<>>, <<"*">>, ""),
     Rule(<<"a">>, <<>>, ErrorMatchTypeExact)}

\* errors that one of TierRules, two of them or none of them match
TierErrors ==
    {NilErr,
     Error("plain", FALSE, <<>>, <<"a">>),
     Error("plain", FALSE, <<>>, <<"a", "*">>),
     Error("plain", FALSE, <<>>, <<"a", "a">>),
     Error("std", TRUE, <<"a">>, <<"a", "a">>),
     Error("std", TRUE, <<"a">>, <<"a">>),
     Error("std", TRUE, <<"*">>, <<"a", "a">>),
     Error("wrap", TRUE, <<"a">>, <<"a", "a">>)}

RECURSIVE SeqsOfLen(_, _)
SeqsOfLen(S, n) ==
    IF n = 0 THEN {<<>>}
    ELSE {Append(q, x) : q \in SeqsOfLen(S, n - 1), x \in S}

TierSlices ==
    {NilSlice}
    \cup {Slice(q) : q \in UNION {SeqsOfLen(TierRules \cup {NilRule}, n) : n \in 0..MaxRules}}

Init ==
    /\ projectPatterns \in TierSlices
    /\ networkPatterns \in TierSlices
    /\ upstreamPatterns \in TierSlices
    /\ Len(projectPatterns.elems) + Len(networkPatterns.elems)
           + Len(upstreamPatterns.elems) <= MaxRules
    /\ matcher = NilMatcher
    /\ err = NilErr
    /\ result = "none"
    /\ errorsTotal = 0
    /\ notIgnoredCalls = 0
    /\ failureCalls = 0
    /\ callers = <<>>
    /\ heap = <<>>
    /\ held = <<>>

\* the scope builds its matcher from the three tiers
MergePatternsStep ==
    /\ matcher.isNil
    /\ result = "none"
    /\ matcher' = MergePatterns(projectPatterns, networkPatterns, upstreamPatterns)
    /\ UNCHANGED <<projectPatterns, networkPatterns, upstreamPatterns, err, result,
                   errorsTotal, notIgnoredCalls, failureCalls, callers, heap, held>>

\* the scope builds its matcher from one tier alone
NewErrorMatcherStep ==
    /\ matcher.isNil
    /\ result = "none"
    /\ \E patterns \in {projectPatterns, networkPatterns, upstreamPatterns} :
           matcher' = NewErrorMatcher(patterns)
    /\ UNCHANGED <<projectPatterns, networkPatterns, upstreamPatterns, err, result,
                   errorsTotal, notIgnoredCalls, failureCalls, callers, heap, held>>

Next ==
    \/ MergePatternsStep
    \/ NewErrorMatcherStep
    \/ \E e \in TierErrors : ShouldIgnoreErrorCall(e)

Spec == Init /\ [][Next]_vars

(***************************************************************************)
(* SpecHealth: an upstream whose matcher is built from its own tier, and   *)
(* the health tracker's RecordUpstreamFailure, which asks the upstream     *)
(* whether to ignore the error before it counts it.                        *)
(***************************************************************************)
InitHealth ==
    /\ projectPatterns = NilSlice
    /\ networkPatterns = NilSlice
    /\ upstreamPatterns \in TierSlices
    /\ matcher = MergePatterns(projectPatterns, networkPatterns, upstreamPatterns)
    /\ err = NilErr
    /\ result = "none"
    /\ errorsTotal = 0
    /\ notIgnoredCalls = 0
    /\ failureCalls = 0
    /\ callers = <<>>
    /\ heap = <<>>
    /\ held = <<>>

\* some rule of the slice matches the error
SomeRuleMatches(patterns, e) ==
    \E i \in 1..Len(patterns.elems) :
        /\ ~patterns.elems[i].isNil
        /\ matchesPattern(ErrorMsg(e), ErrorCode(e), patterns.elems[i])

RecordUpstreamFailure(e) ==
    /\ result # "panic"
    /\ failureCalls < MaxCalls
    /\ err' = e
    /\ result' = ShouldIgnoreError(matcher, e)
    /\ errorsTotal' = IF result' = "false" THEN errorsTotal + 1 ELSE errorsTotal
    /\ failureCalls' = failureCalls + 1
    /\ notIgnoredCalls' =
           IF SomeRuleMatches(upstreamPatterns, e) THEN notIgnoredCalls
           ELSE notIgnoredCalls + 1
    /\ UNCHANGED <<projectPatterns, networkPatterns, upstreamPatterns, matcher,
                   callers, heap, held>>

NextHealth == \E e \in TierErrors \ {NilErr} : RecordUpstreamFailure(e)

SpecHealth == InitHealth /\ [][NextHealth]_vars

(***************************************************************************)
(* SpecConcurrent: two callers run ShouldIgnoreError on the same matcher,  *)
(* step by step and in any interleaving.  A call tests its arguments       *)
(* (line 25), extracts the message and the code into locals (lines 30-39), *)
(* then takes one rule per step (lines 42-46).                             *)
(***************************************************************************)
Callers == {"c1", "c2"}

ConcurrentErrors ==
    {NilErr,
     Error("plain", FALSE, <<>>, <<"a">>),
     Error("plain", FALSE, <<>>, <<"a", "*">>),
     Error("std", TRUE, <<"a">>, <<"a", "a">>)}

Idle ==
    [pc |-> "idle", e |-> NilErr, errMsg |-> <<>>, errCode |-> <<>>, i |-> 0,
     ret |-> "none"]

InitConcurrent ==
    /\ projectPatterns = NilSlice
    /\ networkPatterns = NilSlice
    /\ upstreamPatterns \in TierSlices
    /\ matcher = NewErrorMatcher(upstreamPatterns)
    /\ err = NilErr
    /\ result = "none"
    /\ errorsTotal = 0
    /\ notIgnoredCalls = 0
    /\ failureCalls = 0
    /\ callers = [c \in Callers |-> Idle]
    /\ heap = <<>>
    /\ held = <<>>

\* a panic of one goroutine ends the process
NoPanic == \A c \in Callers : callers[c].ret # "panic"

Return(cs, c, value) == [cs EXCEPT ![c].pc = "done", ![c].ret = value]

\* the call starts: if err == nil || m == nil || len(m.patterns) == 0
BeginCall(c, e) ==
    /\ NoPanic
    /\ callers[c].pc = "idle"
    /\ callers' =
           IF e.kind = "nil" \/ matcher.isNil \/ Len(matcher.patterns.elems) = 0
           THEN Return([callers EXCEPT ![c].e = e], c, "false")
           ELSE [callers EXCEPT ![c].e = e, ![c].pc = "extract"]
    /\ UNCHANGED <<projectPatterns, networkPatterns, upstreamPatterns, matcher, err,
                   result, errorsTotal, notIgnoredCalls, failureCalls, heap, held>>

\* extraction that keeps the message and the code in fields of the matcher:
\* every call that is in its loop reads what the last extraction stored
ExtractFields_OnMatcher(cs, c) ==
    [d \in DOMAIN cs |->
        IF d = c
        THEN [cs[d] EXCEPT !.errMsg = ErrorMsg(cs[c].e),
                           !.errCode = ErrorCode(cs[c].e),
                           !.pc = "loop", !.i = 1]
        ELSE IF cs[d].pc = "loop"
        THEN [cs[d] EXCEPT !.errMsg = ErrorMsg(cs[c].e),
                           !.errCode = ErrorCode(cs[c].e)]
        ELSE cs[d]]

\* errMsg := err.Error(); errCode from the StandardError: both are locals
ExtractFields(cs, c) ==
    [cs EXCEPT ![c].errMsg = ErrorMsg(cs[c].e),
               ![c].errCode = ErrorCode(cs[c].e),
               ![c].pc = "loop", ![c].i = 1]

ExtractStep(c) ==
    /\ NoPanic
    /\ callers[c].pc = "extract"
    /\ callers' = ExtractFields(callers, c)
    /\ UNCHANGED <<projectPatterns, networkPatterns, upstreamPatterns, matcher, err,
                   result, errorsTotal, notIgnoredCalls, failureCalls, heap, held>>

\* one iteration of the loop, or its end
LoopStep(c) ==
    /\ NoPanic
    /\ callers[c].pc = "loop"
    /\ LET patterns == matcher.patterns.elems
           i == callers[c].i
       IN  callers' =
               IF i > Len(patterns) THEN Return(callers, c, "false")
               ELSE IF patterns[i].isNil THEN Return(callers, c, "panic")
               ELSE IF matchesPattern(callers[c].errMsg, callers[c].errCode,
                                      patterns[i])
               THEN Return(callers, c, "true")
               ELSE [callers EXCEPT ![c].i = i + 1]
    /\ UNCHANGED <<projectPatterns, networkPatterns, upstreamPatterns, matcher, err,
                   result, errorsTotal, notIgnoredCalls, failureCalls, heap, held>>

NextConcurrent ==
    \E c \in Callers :
        \/ \E e \in ConcurrentErrors : BeginCall(c, e)
        \/ ExtractStep(c)
        \/ LoopStep(c)

SpecConcurrent == InitConcurrent /\ [][NextConcurrent]_vars

(***************************************************************************)
(* SpecReconf: the scope builds matcher after matcher from the same three  *)
(* tier slices.  Here a slice is a reference into a backing array, as in   *)
(* Go: NewErrorMatcher keeps the caller's slice (line 19), append writes   *)
(* into the array of its first argument while the capacity lasts.          *)
(* heap is the sequence of the backing arrays, a reference is              *)
(* [isNil, arr, len] and its capacity is the length of array arr.          *)
(***************************************************************************)
MaxBuilds == 2
MaxSpare == 2

NilRef == [isNil |-> TRUE, arr |-> 0, len |-> 0]

Cap(h, ref) == IF ref.isNil THEN 0 ELSE Len(h[ref.arr])

Elems(h, ref) == IF ref.isNil THEN <<>> ELSE SubSeq(h[ref.arr], 1, ref.len)

\* the slice a reference denotes, as the value the other specifications use
View(h, ref) == [isNil |-> ref.isNil, elems |-> Elems(h, ref)]

\* make([]*IgnoreErrorConfig, 0, cap): a new array of zero values
make(h, cap) ==
    [heap |-> Append(h, [i \in 1..cap |-> NilRule]),
     ref |-> [isNil |-> FALSE, arr |-> Len(h) + 1, len |-> 0]]

\* append(ref, q...): in place when the capacity suffices, else into a new
\* array (Go may give the new array spare capacity; none is used here)
append(h, ref, q) ==
    IF Len(q) = 0 THEN [heap |-> h, ref |-> ref]
    ELSE IF ref.len + Len(q) <= Cap(h, ref)
    THEN [heap |-> [h EXCEPT ![ref.arr] =
                       [i \in 1..Len(@) |->
                           IF i > ref.len /\ i <= ref.len + Len(q)
                           THEN q[i - ref.len] ELSE @[i]]],
          ref |-> [ref EXCEPT !.len = @ + Len(q)]]
    ELSE [heap |-> Append(h, Elems(h, ref) \o q),
          ref |-> [isNil |-> FALSE, arr |-> Len(h) + 1, len |-> ref.len + Len(q)]]

\* NewErrorMatcher on references: a nil slice becomes a new empty slice, any
\* other slice is stored as it is, sharing the caller's array
NewErrorMatcherOnHeap(h, patterns) ==
    IF patterns.isNil
    THEN LET a == make(h, 0)
         IN  [heap |-> a.heap, m |-> [isNil |-> FALSE, patterns |-> a.ref]]
    ELSE [heap |-> h, m |-> [isNil |-> FALSE, patterns |-> patterns]]

\* MergePatterns without the make: it appends to the upstream slice itself
MergePatterns_AppendToUpstream(h, project, network, upstream) ==
    LET a1 == append(h, upstream, Elems(h, network))
        a2 == append(a1.heap, a1.ref, Elems(a1.heap, project))
    IN  NewErrorMatcherOnHeap(a2.heap, a2.ref)

\* MergePatterns on references: a new array of the total length, then the
\* three appends into it
MergePatternsOnHeap(h, project, network, upstream) ==
    LET a0 == make(h, project.len + network.len + upstream.len)
        a1 == append(a0.heap, a0.ref, Elems(a0.heap, upstream))
        a2 == append(a1.heap, a1.ref, Elems(a1.heap, network))
        a3 == append(a2.heap, a2.ref, Elems(a2.heap, project))
    IN  NewErrorMatcherOnHeap(a3.heap, a3.ref)

MatcherView(h, m) == [isNil |-> m.isNil, patterns |-> View(h, m.patterns)]

ReconfRules ==
    {Rule(<<>>, <<"a">>, ErrorMatchTypeExact), Rule(<<"a">>, <<>>, ErrorMatchTypeExact)}

\* what a tier's slice holds and how many spare cells its array has
ReconfTiers ==
    {[slice |-> NilSlice, spare |-> 0]}
    \cup {[slice |-> Slice(q), spare |-> n] :
             q \in {<<>>} \cup {<<r>> : r \in ReconfRules}, n \in {0, MaxSpare}}

\* the three tier slices as the scope holds them: tier k lies in array k
Tiers == <<projectPatterns, networkPatterns, upstreamPatterns>>

TierRef(k) == [isNil |-> Tiers[k].isNil, arr |-> k, len |-> Len(Tiers[k].elems)]

TierOrders == {t \in [1..3 -> 1..3] : \A i, j \in 1..3 : i # j => t[i] # t[j]}

InitReconf ==
    /\ \E t \in [1..3 -> ReconfTiers] :
           /\ projectPatterns = t[1].slice
           /\ networkPatterns = t[2].slice
           /\ upstreamPatterns = t[3].slice
           /\ heap = [k \in 1..3 |->
                         t[k].slice.elems \o [i \in 1..t[k].spare |-> NilRule]]
    /\ matcher = NilMatcher
    /\ err = NilErr
    /\ result = "none"
    /\ errorsTotal = 0
    /\ notIgnoredCalls = 0
    /\ failureCalls = 0
    /\ callers = <<>>
    /\ held = <<>>

\* held after the matcher of r is built and kept: the matcher and the rules
\* it was built with
Keep(r) == Append(held, [m |-> r.m, rules |-> Elems(r.heap, r.m.patterns)])

\* the configuration is applied again: MergePatterns on the tiers, whichever
\* tier is passed as which argument
MergePatternsBuild ==
    /\ Len(held) < MaxBuilds
    /\ \E t \in TierOrders :
           LET r == MergePatternsOnHeap(heap, TierRef(t[1]), TierRef(t[2]),
                                        TierRef(t[3]))
           IN  /\ heap' = r.heap
               /\ matcher' = MatcherView(r.heap, r.m)
               /\ held' = Keep(r)
    /\ UNCHANGED <<projectPatterns, networkPatterns, upstreamPatterns, err, result,
                   errorsTotal, notIgnoredCalls, failureCalls, callers>>

NewErrorMatcherBuild ==
    /\ Len(held) < MaxBuilds
    /\ \E k \in 1..3 :
           LET r == NewErrorMatcherOnHeap(heap, TierRef(k))
           IN  /\ heap' = r.heap
               /\ matcher' = MatcherView(r.heap, r.m)
               /\ held' = Keep(r)
    /\ UNCHANGED <<projectPatterns, networkPatterns, upstreamPatterns, err, result,
                   errorsTotal, notIgnoredCalls, failureCalls, callers>>

NextReconf ==
    \/ MergePatternsBuild
    \/ NewErrorMatcherBuild

SpecReconf == InitReconf /\ [][NextReconf]_vars

(***************************************************************************)
(* Vocabulary of the properties                                            *)
(***************************************************************************)
Called == result # "none"

\* the matcher holds exactly one rule, and it is not a nil pointer
SingleRule ==
    /\ ~matcher.isNil
    /\ Len(matcher.patterns.elems) = 1
    /\ ~matcher.patterns.elems[1].isNil

TheRule == matcher.patterns.elems[1]

\* the error is not nil and exposes a non-empty code
ExposesCode(e) == e.kind = "std" /\ e.hasBase /\ e.code # <<>>

CodeMatches(rule, e) ==
    ExposesCode(e) /\ matchString(e.code, rule.code, EffType(rule))

MessageMatches(rule, e) ==
    e.kind # "nil" /\ matchString(ErrorMsg(e), rule.message, EffType(rule))

AsSubstring(rule) == [rule EXCEPT !.matchType = ErrorMatchTypeSubstring]

\* substring semantics of a rule, stated without matchString: every
\* non-empty pattern occurs in the corresponding non-empty field
SubstringRuleMatches(rule, e) ==
    /\ e.kind # "nil"
    /\ rule.code # <<>> \/ rule.message # <<>>
    /\ rule.code # <<>> => (ExposesCode(e) /\ Contains(e.code, rule.code))
    /\ rule.message # <<>> =>
           (ErrorMsg(e) # <<>> /\ Contains(ErrorMsg(e), rule.message))

Outcome(b) == IF b THEN "true" ELSE "false"

(***************************************************************************)
(* Properties of a single rule (SpecRule)                                  *)
(***************************************************************************)

\* C2: a rule with a non-empty code pattern and a non-empty message pattern
\* is matched exactly when the code pattern matches the error's code and the
\* message pattern matches the error's message under the rule's match type;
\* if either fails the call returns false.
C2_BothMustMatch ==
    (Called /\ SingleRule /\ TheRule.code # <<>> /\ TheRule.message # <<>>)
        => result = Outcome(CodeMatches(TheRule, err) /\ MessageMatches(TheRule, err))

\* a call on a code+message rule whose code matches and whose message does
\* not
C2_Witness ==
    /\ Called /\ SingleRule
    /\ TheRule.code # <<>> /\ TheRule.message # <<>>
    /\ CodeMatches(TheRule, err) /\ ~MessageMatches(TheRule, err)
    /\ result = "false"

\* C3: for a rule with only a code pattern, the call returns true iff the
\* error exposes a non-empty code matching the pattern under the rule's match
\* type, whatever the error's message and for every match type; an error
\* without the code capability is never ignored.
C3_CodeOnlyRule ==
    (Called /\ SingleRule /\ TheRule.code # <<>> /\ TheRule.message = <<>>)
        => /\ result = Outcome(CodeMatches(TheRule, err))
           /\ ~ExposesCode(err) => result = "false"

\* a code-only rule ignoring a structured error whose message is empty
C3_Witness ==
    /\ Called /\ SingleRule
    /\ TheRule.code # <<>> /\ TheRule.message = <<>>
    /\ err.kind = "std" /\ err.msg = <<>>
    /\ result = "true"

\* C4: the call returns false when the error is nil, when the matcher was
\* built from a nil or empty rule slice, or when the receiver is nil, in
\* every combination; no rule is evaluated (a nil rule entry is not reached).
C4_NothingToIgnore ==
    (Called /\ (\/ err.kind = "nil"
                \/ matcher.isNil
                \/ upstreamPatterns.isNil
                \/ upstreamPatterns.elems = <<>>))
        => result = "false"

\* a nil error on a matcher built from an empty slice
C4_Witness ==
    /\ Called /\ err.kind = "nil" /\ result = "false"
    /\ ~matcher.isNil /\ ~upstreamPatterns.isNil /\ upstreamPatterns.elems = <<>>

\* C7: only the outermost error is inspected for a code: a wrapper around a
\* structured error that a code-only rule ignores is not ignored by that
\* rule, while the structured error itself is.
C7_WrapperLosesCode ==
    (Called /\ SingleRule /\ TheRule.code # <<>> /\ TheRule.message = <<>>)
        => /\ (err.kind = "wrap" /\ CodeMatches(TheRule, Cause(err)))
                  => result = "false"
           /\ (err.kind = "std" /\ CodeMatches(TheRule, err))
                  => result = "true"

\* a call with a wrapper whose cause the rule ignores
C7_Witness ==
    /\ Called /\ SingleRule
    /\ TheRule.code # <<>> /\ TheRule.message = <<>>
    /\ err.kind = "wrap"
    /\ ShouldIgnoreError(matcher, Cause(err)) = "true"
    /\ result = "false"

\* a regex rule none of whose patterns compiles
BrokenRegexRule(rule) ==
    /\ rule.matchType = ErrorMatchTypeRegex
    /\ rule.code # <<>> \/ rule.message # <<>>
    /\ rule.code # <<>> => RegexpCompileFails(rule.code)
    /\ rule.message # <<>> => RegexpCompileFails(rule.message)

\* C8: a regex rule whose pattern does not compile does not raise and gives
\* the substring result: true iff the raw pattern text occurs in the target;
\* the call agrees with the same rule declared as substring.
C8_BrokenRegexIsSubstring ==
    (Called /\ SingleRule /\ BrokenRegexRule(TheRule))
        => /\ result = Outcome(SubstringRuleMatches(TheRule, err))
           /\ result = ShouldIgnoreError(
                           NewErrorMatcher(Slice(<<AsSubstring(TheRule)>>)), err)

\* a non-compiling regex rule ignoring an error that holds the pattern text
\* without being equal to it
C8_Witness ==
    /\ Called /\ SingleRule /\ BrokenRegexRule(TheRule)
    /\ TheRule.code = <<>>
    /\ ErrorMsg(err) # TheRule.message
    /\ result = "true"

\* C9: a rule whose match type is unspecified or unknown gives on every error
\* the result of the same rule with match type substring: true iff each
\* non-empty pattern of the rule (it has one) is a contiguous substring of
\* the corresponding error field.
C9_DefaultIsSubstring ==
    (Called /\ SingleRule /\ TheRule.matchType \in {"", "fuzzy"})
        => /\ result = Outcome(SubstringRuleMatches(TheRule, err))
           /\ result = ShouldIgnoreError(
                           NewErrorMatcher(Slice(<<AsSubstring(TheRule)>>)), err)

\* a rule of unknown match type ignoring an error whose message holds the
\* pattern without being equal to it
C9_Witness ==
    /\ Called /\ SingleRule /\ TheRule.matchType = "fuzzy"
    /\ TheRule.code = <<>>
    /\ ErrorMsg(err) # TheRule.message
    /\ result = "true"

\* C10: for every error and every rule slice a matcher can be constructed
\* with, ShouldIgnoreError completes and returns a boolean; it never panics.
C10_NeverPanics == Called => result \in {"true", "false"}

(***************************************************************************)
(* Properties of a rule sequence (Spec) and of the failure counter         *)
(* (SpecHealth)                                                            *)
(***************************************************************************)
\* every entry of the slice is a rule, none a nil pointer
AllRulesPresent(patterns) ==
    \A i \in 1..Len(patterns.elems) : ~patterns.elems[i].isNil

Ignores(patterns, e) == ShouldIgnoreError(NewErrorMatcher(patterns), e) = "true"

C13_EmptyNeverMatches ==
    (Called /\ SingleRule)
        => /\ \A t \in MatchTypes :
                  /\ ~matchString(<<>>, TheRule.code, t)
                  /\ ~matchString(<<>>, TheRule.message, t)
                  /\ ~matchString(err.code, <<>>, t)
                  /\ ~matchString(ErrorMsg(err), <<>>, t)
           /\ (TheRule.code # <<>> /\ ~ExposesCode(err)) => result = "false"
           /\ (TheRule.message # <<>> /\ ErrorMsg(err) = <<>>) => result = "false"

\* the wildcard rule "*" on the code (no message pattern) not ignoring an
\* error that has no code
C13_Witness ==
    /\ Called /\ SingleRule
    /\ TheRule = Rule(<<"*">>, <<>>, ErrorMatchTypeWildcard)
    /\ err.kind = "plain" /\ err.msg # <<>>
    /\ result = "false"

EmptyRule(t) == Rule(<<>>, <<>>, t)

\* C14: a rule whose code and message patterns are both empty matches no
\* error, for every match type; a matcher made of such rules ignores nothing,
\* and adding such a rule to a matcher, before or after its entries, changes
\* no result.
C14_EmptyRuleMatchesNothing ==
    /\ (Called /\ SingleRule /\ TheRule.code = <<>> /\ TheRule.message = <<>>)
           => result = "false"
    /\ (Called /\ ~matcher.isNil)
           => \A t \in MatchTypes :
                  \A q \in {<<EmptyRule(t)>> \o matcher.patterns.elems,
                            matcher.patterns.elems \o <<EmptyRule(t)>>} :
                      ShouldIgnoreError(NewErrorMatcher(Slice(q)), err) = result

\* a regex rule without patterns not ignoring a structured error
C14_Witness ==
    /\ Called /\ SingleRule
    /\ TheRule = EmptyRule(ErrorMatchTypeRegex)
    /\ ExposesCode(err) /\ err.msg # <<>>
    /\ result = "false"

\* the permutations of 1..n
PermsOf ==
    [n \in 0..(MaxRules + 1) |->
        {p \in [1..n -> 1..n] : \A i, j \in 1..n : i # j => p[i] # p[j]}]

Permuted(q, p) == [i \in 1..Len(q) |-> q[p[i]]]

\* C15: the order of the rules has no effect on the result: the call gives
\* the same result on every permutation of the matcher's rule sequence, and
\* MergePatterns gives the same result whichever tier argument each tier's
\* rules are supplied in.
C15_OrderIrrelevant ==
    /\ (Called /\ ~matcher.isNil)
           => \A p \in PermsOf[Len(matcher.patterns.elems)] :
                  ShouldIgnoreError(
                      NewErrorMatcher(Slice(Permuted(matcher.patterns.elems, p))),
                      err) = result
    /\ (Called
        /\ matcher = MergePatterns(projectPatterns, networkPatterns, upstreamPatterns))
           => LET t == <<projectPatterns, networkPatterns, upstreamPatterns>>
              IN  \A p \in PermsOf[3] :
                      ShouldIgnoreError(MergePatterns(t[p[1]], t[p[2]], t[p[3]]), err)
                          = result

\* the same, for the sequences every entry of which is a rule: among them
\* the order has no effect
OrderIrrelevantAmongRules ==
    /\ (Called /\ ~matcher.isNil /\ AllRulesPresent(matcher.patterns))
           => \A p \in PermsOf[Len(matcher.patterns.elems)] :
                  ShouldIgnoreError(
                      NewErrorMatcher(Slice(Permuted(matcher.patterns.elems, p))),
                      err) = result
    /\ (Called
        /\ matcher = MergePatterns(projectPatterns, networkPatterns, upstreamPatterns)
        /\ AllRulesPresent(matcher.patterns))
           => LET t == <<projectPatterns, networkPatterns, upstreamPatterns>>
              IN  \A p \in PermsOf[3] :
                      ShouldIgnoreError(MergePatterns(t[p[1]], t[p[2]], t[p[3]]), err)
                          = result

(***************************************************************************)
(* Concurrent calls (SpecConcurrent)                                       *)
(***************************************************************************)

\* C11: under any interleaving of concurrent ShouldIgnoreError calls on one
\* matcher, the matcher's rule sequence stays what it was built with and
\* each call returns what it returns when executed alone.
C11_CallsDoNotInterfere ==
    /\ matcher = NewErrorMatcher(upstreamPatterns)
    /\ \A c \in Callers :
           callers[c].pc = "done"
               => callers[c].ret = ShouldIgnoreError(matcher, callers[c].e)

\* a call that returned true while the other call, with an error that no
\* rule matches, had extracted its fields and was in its loop
C11_Witness ==
    \E c, d \in Callers :
        /\ c # d
        /\ callers[c].pc = "done" /\ callers[c].ret = "true"
        /\ callers[d].pc = "loop" /\ callers[d].i >= 2
        /\ ShouldIgnoreError(matcher, callers[d].e) = "false"

(***************************************************************************)
(* Reconfiguration (SpecReconf)                                            *)
(***************************************************************************)

\* C12: building further matchers with MergePatterns or NewErrorMatcher,
\* also from the same tier slices, leaves every matcher built before with
\* the rule sequence it was built with, hence with the same ShouldIgnoreError
\* result for every error; and the three tier slices hold what they held.
C12_OldMatcherUnchanged ==
    /\ \A b \in 1..Len(held) :
           /\ Elems(heap, held[b].m.patterns) = held[b].rules
           /\ \A e \in ConcurrentErrors :
                  ShouldIgnoreError(MatcherView(heap, held[b].m), e)
                      = ShouldIgnoreError(NewErrorMatcher(Slice(held[b].rules)), e)
    /\ \A k \in 1..3 : View(heap, TierRef(k)) = Tiers[k]

\* a matcher that shares the upstream tier's array, which has spare cells,
\* followed by a merge of the same tiers that holds other rules
C12_Witness ==
    /\ Len(held) = 2
    /\ held[1].m.patterns.arr = 3
    /\ Cap(heap, TierRef(3)) > TierRef(3).len
    /\ held[1].rules # <<>>
    /\ held[2].m.patterns.arr > 3
    /\ held[2].rules # held[1].rules
    /\ Len(held[2].rules) = 3

====
